---- MODULE Spec2Model ----
(***************************************************************************)
(* Model of database_tool/views.py: the request handlers of the database   *)
(* tool, the connector sessions they open, the query history they append   *)
(* to and the per-session download store.                                  *)
(*                                                                         *)
(* One action is one request: the whole handler runs inside it.  What the  *)
(* handler cannot decide itself (what the adapter answers, whether a call  *)
(* raises, what the form holds) is drawn with \E in Next.                  *)
(***************************************************************************)
EXTENDS Integers, Sequences, FiniteSets, TLC

VARIABLES connections, history, session, fullResult, last

vars == <<connections, history, session, fullResult, last>>

(***************************************************************************)
(* Bounds of the model.                                                    *)
(***************************************************************************)
MaxHistory == 2
MaxAppends == 1
MaxRows == 1
ExtraRows == 1

(***************************************************************************)
(* Program constants.                                                      *)
(***************************************************************************)
HeadRows == 100
DisplayCap == 100
SampleLimit == 10
DefaultPreviewLimit == 10
DefaultPreviewOffset == 0
DefaultLimitRows == 1000
DefaultOffsetRows == 0
DoublePrecision == 10

(***************************************************************************)
(* Small helpers.                                                          *)
(***************************************************************************)
Min(a, b) == IF a <= b THEN a ELSE b

Range(s) == {s[i] : i \in 1..Len(s)}

SeqsUpTo(S, n) == UNION {[1..k -> S] : k \in 0..n}

\* An optional value: <<>> is "absent", <<v>> is "present with v".
Absent == <<>>

Some(v) == <<v>>

(***************************************************************************)
(* Users, sessions, stored connections.                                    *)
(***************************************************************************)
Sessions == {"sa", "sb"}

\* A session belongs to the user that logged in with it (login_required).
SessionUser(s) == IF s = "sa" THEN "alice" ELSE "bob"

ConnIds == {1, 2}

DbTypes == {"sqlite", "postgresql", "mysql"}

\* The DatabaseConnection rows present at start: each has an owner and an
\* engine kind.
InitConnections ==
  [c \in ConnIds |->
     IF c = 1 THEN [exists |-> TRUE, user |-> "alice", db_type |-> "sqlite", name |-> "c1"]
     ELSE [exists |-> TRUE, user |-> "bob", db_type |-> "mysql", name |-> "c2"]]

\* A lookup by id alone, without the owner filter.
get_object_or_404_any_owner(conns, cid, u) == cid \in DOMAIN conns /\ conns[cid].exists

\* get_object_or_404(DatabaseConnection, id=connection_id, user=request.user):
\* TRUE when a row with that id and that owner exists, otherwise Http404.
get_object_or_404(conns, cid, u) ==
  cid \in DOMAIN conns /\ conns[cid].exists /\ conns[cid].user = u

(***************************************************************************)
(* Python conversions used by the handlers.                                *)
(***************************************************************************)
Digits == <<"0", "1", "2", "3", "4", "5", "6", "7", "8", "9">>

IsDigit(ch) == \E d \in 1..Len(Digits) : Digits[d] = ch

DigitVal(ch) == (CHOOSE d \in 1..Len(Digits) : Digits[d] = ch) - 1

RECURSIVE DigitsValue(_)
DigitsValue(cs) ==
  IF cs = <<>> THEN 0
  ELSE 10 * DigitsValue(SubSeq(cs, 1, Len(cs) - 1)) + DigitVal(cs[Len(cs)])

AllDigits(cs) == cs # <<>> /\ \A i \in 1..Len(cs) : IsDigit(cs[i])

\* int(text) on a request parameter, a sequence of characters: an optional
\* sign and at least one digit; anything else raises ValueError.
PyInt(cs) ==
  IF cs # <<>> /\ cs[1] \in {"-", "+"} /\ AllDigits(Tail(cs))
    THEN [ok |-> TRUE,
          v |-> IF cs[1] = "-" THEN 0 - DigitsValue(Tail(cs)) ELSE DigitsValue(Tail(cs))]
  ELSE IF AllDigits(cs) THEN [ok |-> TRUE, v |-> DigitsValue(cs)]
  ELSE [ok |-> FALSE, v |-> 0]

\* request.GET.get(key, default) followed by int(...): the parameter is an
\* optional character sequence; the default is already an int.
GetInt(param, default) ==
  IF param = Absent THEN [ok |-> TRUE, v |-> default] ELSE PyInt(param[1])

\* Text is a sequence of characters, each a one-character string.  The
\* backquote has no string literal in TLA+; this stands for that character.
Backquote == "BACKQUOTE"

\* str(n) of an int, as the f-string writes it.
RECURSIVE NatStr(_)
NatStr(n) == IF n < 10 THEN <<Digits[n + 1]>> ELSE NatStr(n \div 10) \o <<Digits[(n % 10) + 1]>>

IntStr(n) == IF n < 0 THEN <<"-">> \o NatStr(0 - n) ELSE NatStr(n)

\* A cleaned form value put into an f-string: None prints as "None".
None == <<>>

PyFormat(v) == IF v = None THEN <<"N", "o", "n", "e">> ELSE IntStr(v[1])

\* form.cleaned_data.get(key, default): the default only when the key is missing.
CleanedGet(field, default) == IF field = Absent THEN Some(default) ELSE field[1]

\* Python truth of an optional string: None and "" are false.
Truthy(opt) == opt # Absent /\ opt[1] # <<>>

(***************************************************************************)
(* query_table, lines 161-186: the statement built from the form.          *)
(***************************************************************************)
SELECT_FROM == <<"S", "E", "L", "E", "C", "T", " ", "*", " ", "F", "R", "O", "M", " ">>

LIMIT == <<" ", "L", "I", "M", "I", "T", " ">>

OFFSET == <<" ", "O", "F", "F", "S", "E", "T", " ">>

\* The statement with the table name written bare.
SelectAll_unquoted(db_type, table_name) == SELECT_FROM \o table_name

SelectAll(db_type, table_name) ==
  IF db_type = "sqlite" THEN SELECT_FROM \o <<"[">> \o table_name \o <<"]">>
  ELSE IF db_type = "postgresql" THEN SELECT_FROM \o <<"\"">> \o table_name \o <<"\"">>
  ELSE SELECT_FROM \o <<Backquote>> \o table_name \o <<Backquote>>

SelectLimit(db_type, table_name, limit, offset) ==
  IF db_type = "sqlite"
    THEN SELECT_FROM \o <<"[">> \o table_name \o <<"]">>
           \o LIMIT \o PyFormat(limit) \o OFFSET \o PyFormat(offset)
  ELSE IF db_type = "postgresql"
    THEN SELECT_FROM \o <<"\"">> \o table_name \o <<"\"">>
           \o LIMIT \o PyFormat(limit) \o OFFSET \o PyFormat(offset)
  ELSE SELECT_FROM \o <<Backquote>> \o table_name \o <<Backquote>>
           \o LIMIT \o PyFormat(limit) \o OFFSET \o PyFormat(offset)

\* The value of the local query before the test "if query"; Absent is None.
BuildQuery(db_type, form) ==
  IF form.query_type = "all" /\ Truthy(form.table_name)
    THEN Some(SelectAll(db_type, form.table_name[1]))
  ELSE IF form.query_type = "limit" /\ Truthy(form.table_name)
    THEN Some(SelectLimit(db_type, form.table_name[1],
                          CleanedGet(form.limit_rows, DefaultLimitRows),
                          CleanedGet(form.offset_rows, DefaultOffsetRows)))
  ELSE IF form.query_type = "custom" THEN form.custom_query
  ELSE Absent

(***************************************************************************)
(* The tabular result (a pandas DataFrame): ordered column names and rows, *)
(* each row a tuple of cell values aligned to the columns.  A cell is an   *)
(* integer, a float written as integer part and decimal digits, or text.   *)
(***************************************************************************)
IntV(n) == [t |-> "int", n |-> n, frac |-> <<>>, s |-> <<>>]

FloatV(n, frac) == [t |-> "float", n |-> n, frac |-> frac, s |-> <<>>]

StrV(cs) == [t |-> "str", n |-> 0, frac |-> <<>>, s |-> cs]

Frame(columns, rows) == [columns |-> columns, rows |-> rows]

NRows(df) == Len(df.rows)

ColumnsUnique(df) ==
  \A i, j \in 1..Len(df.columns) : df.columns[i] = df.columns[j] => i = j

\* A head that keeps every row.
head_all(df, n) == df

\* result_df.head(n), line 208.
head(df, n) == Frame(df.columns, SubSeq(df.rows, 1, Min(NRows(df), n)))

\* df.to_dict('records'), line 208: one mapping column -> value per row; with a
\* repeated column name the last column of that name wins.
to_dict_records(df) ==
  [i \in 1..NRows(df) |->
     [c \in Range(df.columns) |->
        df.rows[i][CHOOSE k \in 1..Len(df.columns) :
                     /\ df.columns[k] = c
                     /\ \A m \in 1..Len(df.columns) : df.columns[m] = c => m <= k]]]

\* The display structure of lines 206-211.
result_data(df) ==
  [columns |-> df.columns,
   data |-> to_dict_records(head(df, HeadRows)),
   total_rows |-> NRows(df),
   display_rows |-> Min(NRows(df), DisplayCap)]

(***************************************************************************)
(* result_df.to_json() (line 216) and pd.read_json (line 283), both with   *)
(* pandas' defaults: orient='columns', double_precision=10, dtype=True.    *)
(***************************************************************************)
RECURSIVE StripZeros(_)
StripZeros(ds) ==
  IF ds # <<>> /\ ds[Len(ds)] = 0 THEN StripZeros(SubSeq(ds, 1, Len(ds) - 1)) ELSE ds

RECURSIVE IncDigits(_)
IncDigits(ds) ==
  IF ds = <<>> THEN [carry |-> 1, ds |-> <<>>]
  ELSE IF ds[Len(ds)] < 9
    THEN [carry |-> 0, ds |-> SubSeq(ds, 1, Len(ds) - 1) \o <<ds[Len(ds)] + 1>>]
  ELSE LET r == IncDigits(SubSeq(ds, 1, Len(ds) - 1))
       IN [carry |-> r.carry, ds |-> r.ds \o <<0>>]

\* A float written with at most p decimal places, rounded half up.
RoundFloat(n, frac, p) ==
  IF Len(frac) <= p THEN [n |-> n, frac |-> frac]
  ELSE IF frac[p + 1] >= 5
    THEN LET r == IncDigits(SubSeq(frac, 1, p))
         IN [n |-> n + r.carry, frac |-> StripZeros(r.ds)]
  ELSE [n |-> n, frac |-> StripZeros(SubSeq(frac, 1, p))]

\* One cell as a JSON value: a number or a string.
JsonValue(v) ==
  IF v.t = "str" THEN [j |-> "str", n |-> 0, frac |-> <<>>, s |-> v.s]
  ELSE IF v.t = "float"
    THEN LET r == RoundFloat(v.n, v.frac, DoublePrecision)
         IN [j |-> "num", n |-> r.n, frac |-> r.frac, s |-> <<>>]
  ELSE [j |-> "num", n |-> v.n, frac |-> <<>>, s |-> <<>>]

\* to_json raises ValueError when the column names are not unique.
to_json_raises(df) == ~ColumnsUnique(df)

\* The JSON text {column: {row index: value}}: column by column.
to_json(df) ==
  [columns |-> df.columns,
   cells |-> [c \in 1..Len(df.columns) |->
                [i \in 1..NRows(df) |-> JsonValue(df.rows[i][c])]]]

\* read_json infers each column's dtype: a column holding strings is tried as
\* float64, which succeeds when every value is a number or a string of
\* digits, and a float column whose values are all whole becomes int64.
NumericLike(j) == j.j = "num" \/ AllDigits(j.s)

CoerceColumn(col) ==
  /\ \E i \in 1..Len(col) : col[i].j = "str"
  /\ \A i \in 1..Len(col) : NumericLike(col[i])

DecodeCell(j, coerce) ==
  IF j.j = "str"
    THEN IF coerce THEN IntV(DigitsValue(j.s)) ELSE StrV(j.s)
  ELSE IF j.frac = <<>> THEN IntV(j.n) ELSE FloatV(j.n, j.frac)

read_json(data) ==
  LET n == IF Len(data.columns) = 0 THEN 0 ELSE Len(data.cells[1])
  IN Frame(data.columns,
           [i \in 1..n |->
              [c \in 1..Len(data.columns) |->
                 DecodeCell(data.cells[c][i], CoerceColumn(data.cells[c]))]])

\* result_df.to_csv(response, index=False), line 301: the header line and
\* one line of written cells per row.
CsvCell(v) ==
  IF v.t = "str" THEN v.s
  ELSE IF v.t = "float"
    THEN IntStr(v.n) \o <<".">>
           \o (IF v.frac = <<>> THEN <<"0">>
               ELSE [k \in 1..Len(v.frac) |-> Digits[v.frac[k] + 1]])
  ELSE IntStr(v.n)

to_csv(df) ==
  [header |-> df.columns,
   lines |-> [i \in 1..NRows(df) |->
                [c \in 1..Len(df.columns) |-> CsvCell(df.rows[i][c])]]]

\* result_df.to_excel(writer, index=False), line 289: the header row and the
\* typed cells.
to_excel(df) == [header |-> df.columns, lines |-> df.rows]

(***************************************************************************)
(* What one request did: the calls it made on connectors, in order, and    *)
(* what it answered.  Connector k is the k-th connector the request made.  *)
(***************************************************************************)
Ev(op, k, u, cid, res) ==
  [op |-> op, k |-> k, user |-> u, cid |-> cid, res |-> res,
   query |-> Absent, limit |-> Absent, offset |-> Absent]

EvQuery(op, k, u, cid, res, q) == [Ev(op, k, u, cid, res) EXCEPT !.query = Some(q)]

EvData(k, u, cid, res, limit, offset) ==
  [Ev("get_table_data", k, u, cid, res) EXCEPT !.limit = limit, !.offset = offset]

Response(handler, s, cid) ==
  [handler |-> handler, session |-> s, user |-> SessionUser(s), cid |-> cid,
   method |-> "GET", form_valid |-> FALSE, status |-> 200, template |-> "", trace |-> <<>>, messages |-> <<>>,
   form |-> Absent, query |-> Absent, df |-> Absent, result |-> Absent, appended |-> <<>>,
   stored |-> FALSE, saved |-> FALSE, deleted |-> FALSE, download |-> Absent,
   test |-> ""]

NoRequest == Response("none", "sa", 0)

\* get_object_or_404 raised Http404: nothing else of the handler ran.
NotFound(handler, s, cid) == [Response(handler, s, cid) EXCEPT !.status = 404]

\* The calls of a list of adapter operations up to the first one that raises.
RunOps(evs, outs) ==
  LET bad == {i \in 1..Len(evs) : outs[i] = "raise"}
      stop == IF bad = {} THEN Len(evs)
              ELSE CHOOSE i \in bad : \A j \in bad : i <= j
  IN [trace |-> [i \in 1..stop |-> [evs[i] EXCEPT !.res = outs[i]]],
      raised |-> bad # {}]

\* create_database_connector(connection) then connector.connect(): the calls
\* made and whether the session is open, failed to open, or a call raised.
\* disconnect() itself is taken never to raise: the adapter's contract makes
\* it safe to call in any state.
Open(k, u, cid, mk, cn) ==
  IF mk = "raise"
    THEN [trace |-> <<Ev("create", k, u, cid, "raise")>>, state |-> "raise"]
  ELSE [trace |-> <<Ev("create", k, u, cid, "ok"), Ev("connect", k, u, cid, cn)>>,
        state |-> cn]

\* The shape shared by connection_detail (lines 99-107) and the dropdown of
\* query_table (lines 251-257): get_tables inside the if, disconnect after it.
OpenListClose(k, u, cid, env) ==
  LET o == Open(k, u, cid, env.mk, env.cn)
  IN IF o.state = "raise" THEN [trace |-> o.trace, raised |-> TRUE, tables |-> FALSE]
     ELSE IF o.state = "false"
       THEN [trace |-> o.trace \o <<Ev("disconnect", k, u, cid, "ok")>>,
             raised |-> FALSE, tables |-> FALSE]
     ELSE IF env.op = "raise"
       THEN [trace |-> o.trace \o <<Ev("get_tables", k, u, cid, "raise")>>,
             raised |-> TRUE, tables |-> FALSE]
     ELSE [trace |-> o.trace \o <<Ev("get_tables", k, u, cid, "ok"),
                                  Ev("disconnect", k, u, cid, "ok")>>,
           raised |-> FALSE, tables |-> TRUE]

\* The shape shared by table_detail and the three api_ handlers: the
\* operations and disconnect inside the if, nothing in the else.
OpenOpsClose(k, u, cid, env, evs, outs) ==
  LET o == Open(k, u, cid, env.mk, env.cn)
      r == RunOps(evs, outs)
  IN IF o.state = "raise" THEN [trace |-> o.trace, end |-> "raise"]
     ELSE IF o.state = "false" THEN [trace |-> o.trace, end |-> "false"]
     ELSE IF r.raised THEN [trace |-> o.trace \o r.trace, end |-> "raise"]
     ELSE [trace |-> o.trace \o r.trace \o <<Ev("disconnect", k, u, cid, "ok")>>,
           end |-> "ok"]

(***************************************************************************)
(* The handlers that only read.                                            *)
(***************************************************************************)
\* connection_detail, lines 91-115.
connection_detail(s, cid, env) ==
  LET u == SessionUser(s)
      r == OpenListClose(1, u, cid, env)
  IN /\ last' = IF ~get_object_or_404(connections, cid, u)
                  THEN NotFound("connection_detail", s, cid)
                ELSE [Response("connection_detail", s, cid) EXCEPT
                        !.template = "connection_detail.html",
                        !.trace = r.trace,
                        !.messages = IF r.raised
                                       THEN <<"Error connecting to database">>
                                     ELSE <<>>]
     /\ UNCHANGED <<connections, history, session, fullResult>>

\* table_detail, lines 117-144.
table_detail(s, cid, table_name, env) ==
  LET u == SessionUser(s)
      r == OpenOpsClose(1, u, cid, env,
                        <<Ev("get_table_info", 1, u, cid, "ok"),
                          EvData(1, u, cid, "ok", Some(SampleLimit), Absent)>>,
                        <<env.op, env.op2>>)
  IN /\ last' = IF ~get_object_or_404(connections, cid, u)
                  THEN NotFound("table_detail", s, cid)
                ELSE IF r.end = "ok"
                  THEN [Response("table_detail", s, cid) EXCEPT
                          !.template = "table_detail.html", !.trace = r.trace]
                ELSE [Response("table_detail", s, cid) EXCEPT
                        !.status = 302, !.trace = r.trace,
                        !.messages = IF r.end = "false"
                                       THEN <<"Could not connect to database">>
                                     ELSE <<"Error fetching table details">>]
     /\ UNCHANGED <<connections, history, session, fullResult>>

\* The JSON answer of the api_ handlers: 200 with the data, 400 when connect
\* returned false, 500 when anything raised.
ApiStatus(end) == IF end = "ok" THEN 200 ELSE IF end = "false" THEN 400 ELSE 500

\* api_get_tables, lines 313-328.
api_get_tables(s, cid, env) ==
  LET u == SessionUser(s)
      r == OpenOpsClose(1, u, cid, env, <<Ev("get_tables", 1, u, cid, "ok")>>, <<env.op>>)
  IN /\ last' = IF ~get_object_or_404(connections, cid, u)
                  THEN NotFound("api_get_tables", s, cid)
                ELSE [Response("api_get_tables", s, cid) EXCEPT
                        !.status = ApiStatus(r.end), !.trace = r.trace]
     /\ UNCHANGED <<connections, history, session, fullResult>>

\* api_get_table_info, lines 330-345.
api_get_table_info(s, cid, table_name, env) ==
  LET u == SessionUser(s)
      r == OpenOpsClose(1, u, cid, env, <<Ev("get_table_info", 1, u, cid, "ok")>>,
                        <<env.op>>)
  IN /\ last' = IF ~get_object_or_404(connections, cid, u)
                  THEN NotFound("api_get_table_info", s, cid)
                ELSE [Response("api_get_table_info", s, cid) EXCEPT
                        !.status = ApiStatus(r.end), !.trace = r.trace]
     /\ UNCHANGED <<connections, history, session, fullResult>>

\* api_preview_table, lines 347-372: limit and offset are the request's GET
\* parameters, optional character sequences.
api_preview_table(s, cid, table_name, limit, offset, env) ==
  LET u == SessionUser(s)
      l == GetInt(limit, DefaultPreviewLimit)
      o == GetInt(offset, DefaultPreviewOffset)
      r == OpenOpsClose(1, u, cid, env,
                        <<EvData(1, u, cid, "ok", Some(l.v), Some(o.v))>>, <<env.op>>)
  IN /\ last' = IF ~get_object_or_404(connections, cid, u)
                  THEN NotFound("api_preview_table", s, cid)
                ELSE IF ~l.ok \/ ~o.ok
                  THEN [Response("api_preview_table", s, cid) EXCEPT !.status = 500]
                ELSE [Response("api_preview_table", s, cid) EXCEPT
                        !.status = ApiStatus(r.end), !.trace = r.trace]
     /\ UNCHANGED <<connections, history, session, fullResult>>

(***************************************************************************)
(* query_table, lines 146-268.                                             *)
(***************************************************************************)
QueryRecord(u, cid, q, success, error) ==
  [user |-> u, connection |-> cid, query |-> q, success |-> success,
   error_message |-> error]

\* A check that lets a rejected statement through.
ValidationStops_only_on_raise(vq) == vq = "raise"

\* Lines 190-192: validate_query answered vq ("valid", "invalid", or the call
\* raised); TRUE when control leaves for the except block.
ValidationStops(vq) == vq # "valid"

\* The try block of lines 158-233 once connect() returned true, for a built
\* statement q: the calls made, the records created, whether the session key
\* was assigned, and how the block ended.
ExecutePath(u, cid, q, env, df) ==
  LET v == EvQuery("validate_query", 1, u, cid, env.vq, q)
      x == EvQuery("execute_query", 1, u, cid, env.ex, q)
      ok == QueryRecord(u, cid, q, TRUE, "")
      fail(e) == QueryRecord(u, cid, q, FALSE, e)
  IN IF ValidationStops(env.vq)
       THEN [trace |-> <<v>>, end |-> "failed", appended |-> <<fail("validation")>>,
             stored |-> FALSE]
     ELSE IF env.ex = "raise"
       THEN [trace |-> <<v, x>>, end |-> "failed", appended |-> <<fail("execution")>>,
             stored |-> FALSE]
     ELSE IF to_json_raises(df)
       THEN [trace |-> <<v, x>>, end |-> "failed",
             appended |-> <<ok, fail("to_json")>>, stored |-> FALSE]
     ELSE IF env.rr = "raise"
       THEN [trace |-> <<v, x, Ev("disconnect", 1, u, cid, "ok")>>, end |-> "failed",
             appended |-> <<ok, fail("render")>>, stored |-> TRUE]
     ELSE [trace |-> <<v, x, Ev("disconnect", 1, u, cid, "ok")>>, end |-> "success",
           appended |-> <<ok>>, stored |-> TRUE]

\* The whole try/except of a POST with a valid form, lines 158-245.
QueryRun(u, cid, db_type, form, env, df) ==
  LET o == Open(1, u, cid, env.mk, env.cn)
      q == BuildQuery(db_type, form)
      none == [trace |-> o.trace, end |-> "failed", appended |-> <<>>,
               stored |-> FALSE, query |-> Absent]
  IN IF o.state # "true" THEN none
     ELSE IF ~Truthy(q) THEN [none EXCEPT !.end = "noquery"]
     ELSE LET r == ExecutePath(u, cid, q[1], env, df)
          IN [trace |-> o.trace \o r.trace, end |-> r.end, appended |-> r.appended,
              stored |-> r.stored, query |-> q]

\* The session entry of lines 214-218, with who stored it.
SessionEntry(s, cid, q, df) ==
  [query |-> q, data |-> to_json(df), connection_name |-> connections[cid].name,
   by_session |-> s, conn_owner |-> connections[cid].user]

query_table(s, cid, method, form_valid, form, env, df, drop) ==
  LET u == SessionUser(s)
      found == get_object_or_404(connections, cid, u)
      post == found /\ method = "POST" /\ form_valid
      r == QueryRun(u, cid, connections[cid].db_type, form, env, df)
      d == OpenListClose(IF post THEN 2 ELSE 1, u, cid, drop)
      base == [Response("query_table", s, cid) EXCEPT
                 !.method = method, !.form_valid = form_valid,
                 !.form = IF post THEN Some(form) ELSE Absent]
  IN /\ last' =
          IF ~found THEN [base EXCEPT !.status = 404]
          ELSE IF ~post
            THEN [base EXCEPT !.template = "query_form.html", !.trace = d.trace]
          ELSE IF r.end = "success"
            THEN [base EXCEPT !.template = "query_result.html", !.trace = r.trace,
                              !.query = r.query, !.df = Some(df),
                              !.result = Some(result_data(df)),
                              !.appended = r.appended, !.stored = r.stored]
          ELSE [base EXCEPT !.template = "query_form.html",
                            !.trace = r.trace \o d.trace,
                            !.query = r.query,
                            !.messages = IF r.end = "noquery"
                                           THEN <<"No valid query to execute">>
                                         ELSE <<"Query failed">>,
                            !.appended = r.appended, !.stored = r.stored]
     /\ history' = IF post THEN history \o r.appended ELSE history
     /\ session' = IF post /\ r.stored
                     THEN [session EXCEPT ![s][cid] = Some(SessionEntry(s, cid, r.query[1], df))]
                   ELSE session
     /\ fullResult' = IF post /\ r.end = "success"
                        THEN [fullResult EXCEPT ![s][cid] = Some(df)]
                      ELSE fullResult
     /\ UNCHANGED connections

(***************************************************************************)
(* download_query_result, lines 270-310.                                   *)
(***************************************************************************)
download_query_result(s, cid, method, format) ==
  LET base == [Response("download_query_result", s, cid) EXCEPT !.method = method]
      entry == session[s][cid]
      table == read_json(entry[1].data)
  IN /\ last' = IF method # "POST" THEN [base EXCEPT !.status = 302]
                ELSE IF entry = Absent
                  THEN [base EXCEPT !.status = 302,
                                    !.messages = <<"No query result found">>]
                ELSE [base EXCEPT
                        !.download =
                           Some([format |-> IF format = "excel" THEN "xlsx" ELSE "csv",
                                 table |-> IF format = "excel" THEN to_excel(table)
                                           ELSE to_csv(table),
                                 filename |-> entry[1].connection_name,
                                 by_session |-> entry[1].by_session,
                                 conn_owner |-> entry[1].conn_owner])]
     /\ UNCHANGED <<connections, history, session, fullResult>>

(***************************************************************************)
(* The handlers that write connections.                                    *)
(***************************************************************************)
\* The module binds the name test_connection twice: the import of line 17
\* (the helper that tests a descriptor) and the view defined at line 76.
\* A call looks the name up when it runs, and finds the later binding.
TestConnectionBindings == <<"helper", "view">>

test_connection_name == TestConnectionBindings[Len(TestConnectionBindings)]

\* test_connection(connection), lines 48, 81 and 419: reach is what the
\* helper answers for the descriptor ("ok", "fail", or it raises).  The view
\* takes (request, connection_id): called with one argument it raises
\* TypeError.
CallTestConnection(reach) == IF test_connection_name = "helper" THEN reach ELSE "raise"

\* The try/except around the connection test, lines 47-56 and 418-427.
TestMessages(t) ==
  IF t = "ok" THEN <<>>
  ELSE IF t = "fail" THEN <<"Connection test failed">>
  ELSE <<"Error testing connection">>

FreeIds == {c \in ConnIds : ~connections[c].exists}

\* add_connection, lines 37-60.  Outside a POST with a valid form the local
\* name connection is never bound, and lines 58 and 60 read it: the
\* UnboundLocalError leaves the handler.
add_connection(s, method, form_valid, db_type, reach) ==
  LET u == SessionUser(s)
      base == [Response("add_connection", s, 0) EXCEPT
                 !.method = method, !.form_valid = form_valid]
      t == CallTestConnection(reach)
      new == CHOOSE c \in FreeIds : \A e \in FreeIds : c <= e
      run == method = "POST" /\ form_valid
  IN /\ run /\ t = "ok" => FreeIds # {}
     /\ last' = IF ~run THEN [base EXCEPT !.status = 500]
                ELSE IF t = "ok"
                  THEN [base EXCEPT !.status = 302, !.test = reach, !.saved = TRUE,
                                    !.cid = new, !.messages = <<"added successfully">>]
                ELSE [base EXCEPT !.template = "edit_connection.html", !.test = reach,
                                  !.messages = TestMessages(t)]
     /\ connections' =
          IF run /\ t = "ok"
            THEN [connections EXCEPT ![new] = [exists |-> TRUE, user |-> u,
                                               db_type |-> db_type, name |-> "new"]]
          ELSE connections
     /\ UNCHANGED <<history, session, fullResult>>

\* edit_connection, lines 407-427.  The function ends after the except
\* block: every path but the saving one returns None, which Django answers
\* with an error (status 500).
edit_connection(s, cid, method, form_valid, db_type, reach) ==
  LET u == SessionUser(s)
      found == get_object_or_404(connections, cid, u)
      base == [Response("edit_connection", s, cid) EXCEPT
                 !.method = method, !.form_valid = form_valid]
      t == CallTestConnection(reach)
      run == found /\ method = "POST" /\ form_valid
  IN /\ last' = IF ~found THEN [base EXCEPT !.status = 404]
                ELSE IF ~run THEN [base EXCEPT !.status = 500]
                ELSE IF t = "ok"
                  THEN [base EXCEPT !.status = 302, !.test = reach, !.saved = TRUE,
                                    !.messages = <<"updated successfully">>]
                ELSE [base EXCEPT !.status = 500, !.test = reach,
                                  !.messages = TestMessages(t)]
     /\ connections' = IF run /\ t = "ok"
                         THEN [connections EXCEPT ![cid].db_type = db_type]
                       ELSE connections
     /\ UNCHANGED <<history, session, fullResult>>

\* delete_connection, lines 62-73.
delete_connection(s, cid, method) ==
  LET u == SessionUser(s)
      found == get_object_or_404(connections, cid, u)
      base == [Response("delete_connection", s, cid) EXCEPT !.method = method]
  IN /\ last' = IF ~found THEN [base EXCEPT !.status = 404]
                ELSE IF method = "POST"
                  THEN [base EXCEPT !.status = 302, !.deleted = TRUE,
                                    !.messages = <<"deleted successfully">>]
                ELSE [base EXCEPT !.template = "delete_connection.html"]
     /\ connections' = IF found /\ method = "POST"
                         THEN [connections EXCEPT ![cid].exists = FALSE]
                       ELSE connections
     /\ UNCHANGED <<history, session, fullResult>>

\* The view test_connection, lines 75-89: it calls the name test_connection
\* itself, inside the same try/except, and redirects.
test_connection(s, cid, reach) ==
  LET u == SessionUser(s)
      base == Response("test_connection", s, cid)
      t == CallTestConnection(reach)
  IN /\ last' = IF ~get_object_or_404(connections, cid, u)
                  THEN [base EXCEPT !.status = 404]
                ELSE [base EXCEPT !.status = 302, !.test = reach,
                                  !.messages = IF t = "ok"
                                                 THEN <<"Connection test successful">>
                                               ELSE TestMessages(t)]
     /\ UNCHANGED <<connections, history, session, fullResult>>

\* api_validate_query, lines 374-398: the connection id comes from the JSON
\* body; Http404 is an Exception, so the except block answers it with 500.
api_validate_query(s, cid, method, body_ok, q, env) ==
  LET u == SessionUser(s)
      base == [Response("api_validate_query", s, cid) EXCEPT !.method = method]
      mk == Ev("create", 1, u, cid, env.mk)
  IN /\ last' = IF method # "POST" THEN [base EXCEPT !.status = 405]
                ELSE IF ~body_ok \/ ~get_object_or_404(connections, cid, u)
                  THEN [base EXCEPT !.status = 500]
                ELSE IF env.mk = "raise"
                  THEN [base EXCEPT !.status = 500, !.trace = <<mk>>]
                ELSE [base EXCEPT
                        !.status = IF env.vq = "raise" THEN 500 ELSE 200,
                        !.query = Some(q),
                        !.trace = <<mk, EvQuery("validate_query", 1, u, cid, env.vq, q)>>]
     /\ UNCHANGED <<connections, history, session, fullResult>>

(***************************************************************************)
(* The inputs of the requests.                                             *)
(***************************************************************************)
Methods == {"GET", "POST"}

\* What the adapter answers to a reading handler: create_database_connector
\* (mk), connect (cn) and up to two operations (op, op2).  Answers to calls
\* that are never made are left at their first value.
ReadEnvs ==
  {e \in [mk : {"ok", "raise"}, cn : {"true", "false", "raise"},
          op : {"ok", "raise"}, op2 : {"ok", "raise"}] :
     /\ e.mk = "raise" => e.cn = "true"
     /\ (e.mk = "raise" \/ e.cn # "true") => e.op = "ok"
     /\ e.op = "raise" => e.op2 = "ok"
     /\ (e.mk = "raise" \/ e.cn # "true") => e.op2 = "ok"}

ReadEnvs1 == {e \in ReadEnvs : e.op2 = "ok"}

CalmEnv == [mk |-> "ok", cn |-> "true", op |-> "ok", op2 |-> "ok"]

\* The answers with the session open: the operation returns or raises.
OpenEnvs == {e \in ReadEnvs1 : e.mk = "ok" /\ e.cn = "true"}

\* What the adapter and the template answer to query_table's try block:
\* validate_query (vq), execute_query (ex), render of the result page (rr).
QueryEnvs ==
  {e \in [mk : {"ok", "raise"}, cn : {"true", "false", "raise"},
          vq : {"valid", "invalid", "raise"}, ex : {"ok", "raise"},
          rr : {"ok", "raise"}] :
     /\ e.mk = "raise" => e.cn = "true"
     /\ (e.mk = "raise" \/ e.cn # "true") => e.vq = "valid"
     /\ (e.mk = "raise" \/ e.cn # "true" \/ e.vq # "valid") => e.ex = "ok"
     /\ (e.mk = "raise" \/ e.cn # "true" \/ e.vq # "valid" \/ e.ex # "ok")
          => e.rr = "ok"}

GoodEnv == [mk |-> "ok", cn |-> "true", vq |-> "valid", ex |-> "ok", rr |-> "ok"]

Reaches(e, step) ==
  /\ e.mk = "ok" /\ e.cn = "true"
  /\ step = "execute" => e.vq = "valid"
  /\ step = "result" => e.vq = "valid" /\ e.ex = "ok"

\* The cleaned data of a valid QueryForm.
Form(query_type, table_name, limit_rows, offset_rows, custom_query) ==
  [query_type |-> query_type, table_name |-> table_name, limit_rows |-> limit_rows,
   offset_rows |-> offset_rows, custom_query |-> custom_query]

SELECT_1 == <<"S", "E", "L", "E", "C", "T", " ", "1">>

DROP_T == <<"D", "R", "O", "P", " ", "t">>

EmptyForm == Form("all", Absent, Absent, Absent, Absent)

FormsOf(names, numbers, customs) ==
  {Form("all", n, Absent, Absent, Absent) : n \in names \cup {Absent, Some(<<>>)}}
    \cup {Form("limit", n, l, o, Absent) : n \in names, l \in numbers, o \in numbers}
    \cup {Form("custom", Absent, Absent, Absent, c) : c \in customs \cup {Some(<<>>)}}

Forms == FormsOf({Some(<<"t">>)}, {Absent}, {Some(SELECT_1)})

TableNames == {<<"t">>, <<"m", "y", " ", "t">>}

FormNumbers == {Absent, Some(None), Some(<<25>>)}

BuildForms == FormsOf({Some(n) : n \in TableNames}, FormNumbers, {Some(SELECT_1)})

FormBuilds(form) == Truthy(BuildQuery("sqlite", form))

\* The results execute_query may return.
Cells ==
  {IntV(7), FloatV(0, <<5>>), FloatV(0, <<1, 2, 3, 4, 5, 6, 7, 8, 9, 0, 1, 2>>),
   StrV(<<"a", "b">>), StrV(<<"0", "0", "7">>)}

OneColumn == {Frame(<<"a">>, rows) : rows \in SeqsUpTo({<<c>> : c \in Cells}, MaxRows)}

TwoColumns ==
  {Frame(<<"b", "a">>, rows) :
     rows \in SeqsUpTo({<<IntV(1), StrV(<<"x">>)>>, <<IntV(2), StrV(<<"y">>)>>}, MaxRows)}

Counted(n) == Frame(<<"id">>, [i \in 1..n |-> <<IntV(i)>>])

LongFrames == {Counted(n) : n \in (HeadRows - 1)..(HeadRows + ExtraRows)}

RepeatedColumn == Frame(<<"a", "a">>, <<<<IntV(1), IntV(2)>>>>)

OneRow == Frame(<<"a">>, <<<<IntV(7)>>>>)

Frames == {OneRow, RepeatedColumn}

ResultFrames == OneColumn \cup TwoColumns \cup LongFrames \cup {RepeatedColumn}

\* The inputs of one query_table request; what a request never reads is
\* left at a fixed value.
QueryInputs(forms, envs, frames, drops) ==
  {i \in [method : Methods, form_valid : BOOLEAN, form : forms \cup {EmptyForm},
          env : envs \cup {GoodEnv}, df : frames \cup {OneRow},
          drop : drops \cup {CalmEnv}] :
     LET post == i.method = "POST" /\ i.form_valid
         runs == post /\ FormBuilds(i.form)
     IN /\ i.method = "GET" => ~i.form_valid
        /\ i.form \in forms \/ ~post
        /\ ~post => i.form = EmptyForm /\ i.env = GoodEnv
        /\ post => i.env \in envs
        /\ (post /\ ~runs) =>
             (i.env.vq = "valid" /\ i.env.ex = "ok" /\ i.env.rr = "ok")
        /\ IF runs /\ Reaches(i.env, "result") THEN i.df \in frames ELSE i.df = OneRow
        /\ IF runs /\ i.env = GoodEnv /\ ~to_json_raises(i.df)
             THEN i.drop = CalmEnv ELSE i.drop \in drops}

GetParams == {Absent, Some(<<"5">>), Some(<<"-", "1">>), Some(<<"a">>)}

Outcomes == {"ok", "fail", "raise"}

Formats == {"csv", "excel"}

NoResults == [s \in Sessions |-> [c \in ConnIds |-> Absent]]

(***************************************************************************)
(* The system: any request of any session at any time.  The history is     *)
(* capped so the state space is finite.                                    *)
(***************************************************************************)
Init ==
  /\ connections = InitConnections
  /\ history = <<>>
  /\ session = NoResults
  /\ fullResult = NoResults
  /\ last = NoRequest

\* Requests of one session on its own connection, with every answer the
\* adapter can give.
MainQueryInputs ==
  QueryInputs({Form("custom", Absent, Absent, Absent, Some(SELECT_1))},
              QueryEnvs, {OneRow}, ReadEnvs1)

ValidateEnvs == {e \in QueryEnvs : e.cn = "true" /\ e.ex = "ok" /\ e.rr = "ok"}

Next ==
  \/ \E env \in ReadEnvs1 : connection_detail("sa", 1, env)
  \/ \E env \in ReadEnvs : table_detail("sa", 1, <<"t">>, env)
  \/ \E env \in ReadEnvs1 : api_get_tables("sa", 1, env)
  \/ \E env \in ReadEnvs1 : api_get_table_info("sa", 1, <<"t">>, env)
  \/ \E env \in ReadEnvs1, l \in GetParams, o \in GetParams :
       api_preview_table("sa", 1, <<"t">>, l, o, env)
  \/ \E i \in MainQueryInputs :
       /\ query_table("sa", 1, i.method, i.form_valid, i.form, i.env, i.df, i.drop)
       /\ Len(history') <= MaxAppends
  \/ \E m \in Methods, f \in Formats : download_query_result("sa", 1, m, f)
  \/ \E m \in Methods, fv \in BOOLEAN, t \in DbTypes, reach \in Outcomes :
       add_connection("sa", m, fv, t, reach)
  \/ \E m \in Methods, fv \in BOOLEAN, t \in DbTypes, reach \in Outcomes :
       edit_connection("sa", 1, m, fv, t, reach)
  \/ \E reach \in Outcomes : test_connection("sa", 1, reach)
  \/ \E m \in Methods, ok \in BOOLEAN, q \in {SELECT_1, DROP_T}, env \in ValidateEnvs :
       api_validate_query("sa", 1, m, ok, q, env)

Spec == Init /\ [][Next]_vars

\* Requests of two users on every connection, the adapter answering well or
\* failing to connect.
OwnQueryInputs ==
  QueryInputs({Form("custom", Absent, Absent, Absent, Some(SELECT_1))},
              {GoodEnv}, {OneRow}, {CalmEnv})

NextOwn ==
  \/ \E s \in Sessions, cid \in ConnIds : connection_detail(s, cid, CalmEnv)
  \/ \E s \in Sessions, cid \in ConnIds : table_detail(s, cid, <<"t">>, CalmEnv)
  \/ \E s \in Sessions, cid \in ConnIds : api_get_tables(s, cid, CalmEnv)
  \/ \E s \in Sessions, cid \in ConnIds : api_get_table_info(s, cid, <<"t">>, CalmEnv)
  \/ \E s \in Sessions, cid \in ConnIds :
       api_preview_table(s, cid, <<"t">>, Absent, Absent, CalmEnv)
  \/ \E s \in Sessions, cid \in ConnIds, i \in OwnQueryInputs :
       /\ query_table(s, cid, i.method, i.form_valid, i.form, i.env, i.df, i.drop)
       /\ Len(history') <= MaxHistory
  \/ \E s \in Sessions, cid \in ConnIds, m \in Methods :
       download_query_result(s, cid, m, "csv")
  \/ \E s \in Sessions, m \in Methods, reach \in Outcomes :
       add_connection(s, m, TRUE, "sqlite", reach)
  \/ \E s \in Sessions, cid \in ConnIds, m \in Methods, reach \in Outcomes :
       edit_connection(s, cid, m, TRUE, "postgresql", reach)
  \/ \E s \in Sessions, cid \in ConnIds, m \in Methods : delete_connection(s, cid, m)
  \/ \E s \in Sessions, cid \in ConnIds : test_connection(s, cid, "ok")
  \/ \E s \in Sessions, cid \in ConnIds, m \in Methods :
       api_validate_query(s, cid, m, TRUE, SELECT_1, GoodEnv)

SpecOwn == Init /\ [][NextOwn]_vars

\* query_table with the three query types, every answer of the adapter, and
\* the history it appends to.
HistoryQueryInputs == QueryInputs(Forms, QueryEnvs, Frames, {CalmEnv})

NextQuery ==
  \E i \in HistoryQueryInputs :
    /\ query_table("sa", 1, i.method, i.form_valid, i.form, i.env, i.df, i.drop)
    /\ Len(history') <= MaxHistory

SpecQuery == Init /\ [][NextQuery]_vars

\* query_table with the three query types, every answer of the adapter
\* and of the dropdown's connector.
ValidateQueryInputs == QueryInputs(Forms, QueryEnvs, {OneRow}, OpenEnvs)

NextValidate ==
  \E i \in ValidateQueryInputs :
    /\ query_table("sa", 1, i.method, i.form_valid, i.form, i.env, i.df, i.drop)
    /\ Len(history') <= MaxAppends

SpecValidate == Init /\ [][NextValidate]_vars

\* query_table with results longer than the preview.
PreviewQueryInputs ==
  QueryInputs({Form("custom", Absent, Absent, Absent, Some(SELECT_1)),
               Form("custom", Absent, Absent, Absent, Some(DROP_T))},
              QueryEnvs, LongFrames \cup TwoColumns \cup {RepeatedColumn}, {CalmEnv})

NextPreview ==
  \E i \in PreviewQueryInputs :
    /\ query_table("sa", 1, i.method, i.form_valid, i.form, i.env, i.df, i.drop)
    /\ Len(history') <= MaxAppends

SpecPreview == Init /\ [][NextPreview]_vars

\* query_table followed by download_query_result, over results of every
\* cell type.
ResultQueryInputs ==
  QueryInputs({Form("custom", Absent, Absent, Absent, Some(SELECT_1))},
              QueryEnvs, ResultFrames, {CalmEnv})

NextResults ==
  \/ \E i \in ResultQueryInputs :
       /\ query_table("sa", 1, i.method, i.form_valid, i.form, i.env, i.df, i.drop)
       /\ Len(history') <= MaxHistory
  \/ \E m \in Methods, f \in Formats : download_query_result("sa", 1, m, f)

SpecResults == Init /\ [][NextResults]_vars

\* query_table building statements for every engine kind, table name and
\* limit.
InitBuild ==
  /\ connections \in {[InitConnections EXCEPT ![1].db_type = t] : t \in DbTypes}
  /\ history = <<>>
  /\ session = NoResults
  /\ fullResult = NoResults
  /\ last = NoRequest

BuildQueryInputs == QueryInputs(BuildForms, {GoodEnv}, {OneRow}, {CalmEnv})

NextBuild ==
  \E i \in BuildQueryInputs :
    /\ query_table("sa", 1, i.method, i.form_valid, i.form, i.env, i.df, i.drop)
    /\ Len(history') <= MaxAppends

SpecBuild == InitBuild /\ [][NextBuild]_vars

(***************************************************************************)
(* Properties.                                                             *)
(***************************************************************************)
Trace == last.trace

Calls(op) == {i \in 1..Len(Trace) : Trace[i].op = op}

SessionHandlers ==
  {"connection_detail", "table_detail", "query_table", "api_get_tables",
   "api_get_table_info", "api_preview_table"}

\* C1: in the six handlers that open a session, every connector whose
\* connect() returned true has disconnect() called on it later in the same
\* request, on every path.
C1_EverySessionReleased ==
  last.handler \in SessionHandlers =>
    \A i \in Calls("connect") :
      Trace[i].res = "true" =>
        \E j \in Calls("disconnect") : j > i /\ Trace[j].k = Trace[i].k

\* C2: in query_table, execute_query(q) is called only after validate_query(q)
\* answered valid for the same statement on the same connector in the same
\* request, and a statement validate_query rejected is never executed.
C2_ExecuteOnlyValidated ==
  last.handler = "query_table" =>
    /\ \A i \in Calls("execute_query") :
         \E j \in Calls("validate_query") :
           /\ j < i
           /\ Trace[j].res = "valid"
           /\ Trace[j].query = Trace[i].query
           /\ Trace[j].k = Trace[i].k
    /\ \A j \in Calls("validate_query") :
         Trace[j].res # "valid" =>
           \A i \in Calls("execute_query") : Trace[i].query # Trace[j].query

\* A paginated canned statement passed validation and was executed.
C2_Witness ==
  /\ last.handler = "query_table"
  /\ last.form # Absent /\ last.form[1].query_type = "limit"
  /\ Calls("execute_query") # {}

\* C3: a query_table POST that submits a built statement appends exactly one
\* record: success=True exactly when execute_query returned, success=False
\* otherwise; the records before it stay as they were.
Submitted == last.handler = "query_table" /\ Calls("validate_query") # {}

Executed == \E i \in Calls("execute_query") : Trace[i].res = "ok"

C3_OneRecordPerAttempt ==
  Submitted =>
    /\ Len(last.appended) = 1
    /\ last.appended[1].success = Executed
    /\ Len(history) >= 1 /\ history[Len(history)] = last.appended[1]

\* C4: a query_table POST that ends in failure returns no result rows and
\* leaves the session's downloadable result for that connection as it was.
EndedInFailure ==
  /\ last.handler = "query_table"
  /\ last.method = "POST" /\ last.form_valid
  /\ last.messages = <<"Query failed">>

C4_NothingOnFailure == EndedInFailure => last.result = Absent /\ ~last.stored

\* C5: the canned statements hold the table name inside the dialect's
\* identifier quotes: [name] for sqlite, "name" for postgresql, the name in
\* backquotes for mysql; the paginated form is the same statement followed
\* by LIMIT <limit> OFFSET <offset>.
OpenQuote(db_type) ==
  IF db_type = "sqlite" THEN "[" ELSE IF db_type = "postgresql" THEN "\"" ELSE Backquote

CloseQuote(db_type) ==
  IF db_type = "sqlite" THEN "]" ELSE IF db_type = "postgresql" THEN "\"" ELSE Backquote

QuotedSelect(db_type, name) ==
  SELECT_FROM \o <<OpenQuote(db_type)>> \o name \o <<CloseQuote(db_type)>>

Canned == /\ last.handler = "query_table"
          /\ last.form # Absent
          /\ last.form[1].query_type \in {"all", "limit"}
          /\ Truthy(last.form[1].table_name)

C5_TableNameQuoted ==
  Canned =>
    LET f == last.form[1]
        db == connections[last.cid].db_type
        all == QuotedSelect(db, f.table_name[1])
    IN IF f.query_type = "all" THEN last.query = Some(all)
       ELSE last.query =
              Some(all \o LIMIT \o PyFormat(CleanedGet(f.limit_rows, DefaultLimitRows))
                       \o OFFSET \o PyFormat(CleanedGet(f.offset_rows, DefaultOffsetRows)))

\* A paginated statement for a table name with a space, on mysql.
C5_Witness ==
  /\ Canned
  /\ last.form[1].query_type = "limit"
  /\ last.form[1].table_name = Some(<<"m", "y", " ", "t">>)
  /\ last.form[1].limit_rows = Some(<<25>>)
  /\ connections[last.cid].db_type = "mysql"

\* C6: after a successful query on a connection, the download of that
\* session for that connection holds the full result of the most recent
\* successful query: the same columns and the same rows and values in the
\* same order, as CSV and as Excel.
Served == last.handler = "download_query_result" /\ last.download # Absent

C6_DownloadIsFullResult ==
  (Served /\ fullResult[last.session][last.cid] # Absent) =>
    LET full == fullResult[last.session][last.cid][1]
    IN last.download[1].table =
         IF last.download[1].format = "xlsx" THEN to_excel(full) ELSE to_csv(full)

\* C7: every get_table_data call gets a non-negative integer limit and, when
\* one is passed, a non-negative integer offset.
C7_PagingNonNegative ==
  \A i \in Calls("get_table_data") :
    /\ Trace[i].limit # Absent /\ Trace[i].limit[1] >= 0
    /\ Trace[i].offset # Absent => Trace[i].offset[1] >= 0

\* C8: a successful query with n result rows displays its first min(n, 100)
\* rows in result order, with display_rows = min(n, 100), total_rows = n and
\* the result's ordered columns.
Displayed == last.handler = "query_table" /\ last.result # Absent

C8_PreviewIsFirstRows ==
  Displayed =>
    LET df == last.df[1]
        r == last.result[1]
        n == Len(df.rows)
        m == IF n < 100 THEN n ELSE 100
    IN /\ r.display_rows = m
       /\ r.total_rows = n
       /\ r.columns = df.columns
       /\ Len(r.data) = m
       /\ \A i \in 1..m : \A c \in 1..Len(df.columns) :
            r.data[i][df.columns[c]] = df.rows[i][c]

\* A result longer than the preview was displayed.
C8_Witness == Displayed /\ last.result[1].total_rows > last.result[1].display_rows

\* C9: in add_connection and edit_connection, a POST with a valid form saves
\* the connection exactly when the connection test on it succeeds; when the
\* test fails or raises nothing is saved and an error message is reported,
\* no exception leaving the handler.
Tested ==
  /\ last.handler \in {"add_connection", "edit_connection"}
  /\ last.method = "POST" /\ last.form_valid
  /\ last.test # ""

C9_SavedIffTestSucceeds ==
  Tested =>
    /\ last.saved <=> last.test = "ok"
    /\ last.test # "ok" => last.messages # <<>> /\ last.status # 500

\* C10: whatever the interleaving of two users' requests, connectors are
\* made, connected, queried and validated against, and connections deleted
\* or edited, only for a connection the requesting user owns; and a download
\* serves only a result its own session stored from a connection its user
\* owned.
C10_OnlyOwnConnections ==
  /\ \A i \in 1..Len(Trace) :
       /\ Trace[i].user = last.user
       /\ connections[Trace[i].cid].user = last.user
  /\ (last.deleted \/ (last.saved /\ last.handler = "edit_connection")) =>
       connections[last.cid].user = last.user
  /\ Served =>
       /\ last.download[1].by_session = last.session
       /\ last.download[1].conn_owner = last.user

\* bob downloaded a result after alice had run a query of her own.
C10_Witness ==
  /\ Served /\ last.user = "bob"
  /\ session["sa"][1] # Absent

====
